---- MODULE Spec2Model ----
(***************************************************************************)
(* FAST (Fast Architecture-Sensitive Tree): construction of the blocked    *)
(* layout (fast_build.c), the two search traversals (fast_search.c) and    *)
(* the public facade (fast.c), as a state machine over one index handle.   *)
(*                                                                         *)
(* C arrays are functions over 0..len-1.  A size_t value is represented by *)
(* its two's-complement reading (the integer s with value = s mod 2^64);   *)
(* every size_t computed here has |s| far below 2^63, so sums, differences *)
(* and products of representatives are the representatives of the wrapped  *)
(* results, and a negative representative is an offset of 2^64 - |s|.      *)
(***************************************************************************)
EXTENDS Integers, Sequences, FiniteSets, TLC

\* ------------------------------------------------------------------ bounds
MaxSmallLen == 3
MaxLargeN == 64
NumReaders == 2

\* ------------------------------------------------- architecture constants
FAST_DK == 2
FAST_NK == 3
FAST_DL == 4
FAST_DP_4K == 10
FAST_DP_2M == 19
FAST_KEY_MAX == 2147483647
INT32_MIN == -2147483647 - 1
NULL == 0

\* variant: the table of the header's first description, in which bit 0
\* alone (001) selects child 1 and 010 is taken to be impossible
FAST_LOOKUP_BitOrder == [m \in 0..15 |->
                          CASE m % 8 = 0 -> 0
                            [] m % 8 = 1 -> 1
                            [] m % 8 = 3 -> 2
                            [] m % 8 = 7 -> 3
                            [] OTHER -> -1]

\* static const int FAST_LOOKUP[16]
FAST_LOOKUP == [m \in 0..15 |->
                 CASE m % 8 = 0 -> 0
                   [] m % 8 = 2 -> 1
                   [] m % 8 = 3 -> 2
                   [] m % 8 = 7 -> 3
                   [] OTHER -> -1]

\* ------------------------------------------------------------ C helpers
\* (size_t)1 << d
Shl1(d) == 2 ^ d

Min(a, b) == IF a < b THEN a ELSE b

\* the array a with a[i] = v
Store(a, i, v) == [a EXCEPT ![i] = v]

\* ---------------------------------------------------------- geometry
\* variant: the loop test is tmp - 1 <= n
RECURSIVE DnLoopInclusive(_, _, _)
DnLoopInclusive(d_n, tmp, n) ==
    IF tmp - 1 <= n THEN DnLoopInclusive(d_n + 1, 2 * tmp, n) ELSE d_n

\* fast_build_layout: int d_n = 0; tmp = 1; while (tmp - 1 < n) { d_n++; tmp <<= 1; }
RECURSIVE DnLoop(_, _, _)
DnLoop(d_n, tmp, n) ==
    IF tmp - 1 < n THEN DnLoop(d_n + 1, 2 * tmp, n) ELSE d_n

ComputeDn(n) == DnLoop(0, 1, n)

\* t->page_size = (ps > 0) ? (size_t)ps : 4096
PageSizeOf(ps) == IF ps > 0 THEN ps ELSE 4096

\* variant: the slots of a page are counted as 8 bytes wide
RECURSIVE DpLoopWide(_, _)
DpLoopWide(dp, page_size) ==
    IF Shl1(dp + 1) - 1 <= page_size \div 8 THEN DpLoopWide(dp + 1, page_size) ELSE dp

\* int dp = 1; while (((size_t)1 << (dp + 1)) - 1 <= page_size / sizeof(int32_t)) dp++;
RECURSIVE DpLoop(_, _)
DpLoop(dp, page_size) ==
    IF Shl1(dp + 1) - 1 <= page_size \div 4 THEN DpLoop(dp + 1, page_size) ELSE dp

ComputeDp(page_size) ==
    IF page_size >= 2 * 1024 * 1024 THEN FAST_DP_2M ELSE DpLoop(1, page_size)

\* ------------------------------------------------------ build_inorder_map
\* One record per loop state: the map being filled, the explicit stack, the
\* cursor, the next rank, the stack capacity, the number of realloc calls and
\* the largest stack_top seen.
\* while (cur < n || stack_top > 0)
InorderDone(s, n) == ~(s.cur < n \/ Len(s.stack) > 0)

\* variant: after a pop the walk goes to the left child again
InorderStepLeftAgain(s, n) ==
    IF s.cur < n
    THEN LET grow == Len(s.stack) >= s.stack_cap IN
         [s EXCEPT !.stack = Append(s.stack, s.cur),
                   !.cur = 2 * s.cur + 1,
                   !.stack_cap = IF grow THEN 2 * @ ELSE @,
                   !.reallocs = IF grow THEN @ + 1 ELSE @,
                   !.max_top = IF Len(s.stack) + 1 > @ THEN Len(s.stack) + 1 ELSE @]
    ELSE LET top == s.stack[Len(s.stack)] IN
         [s EXCEPT !.stack = SubSeq(s.stack, 1, Len(s.stack) - 1),
                   !.map = Store(s.map, top, s.sorted_idx),
                   !.sorted_idx = @ + 1,
                   !.cur = 2 * top + 1]

\* one push (inner while) or one pop (the if after it)
InorderStep(s, n) ==
    IF s.cur < n
    THEN \* push cur, go to the left child
         LET grow == Len(s.stack) >= s.stack_cap IN
         [s EXCEPT !.stack = Append(s.stack, s.cur),
                   !.cur = 2 * s.cur + 1,
                   !.stack_cap = IF grow THEN 2 * @ ELSE @,
                   !.reallocs = IF grow THEN @ + 1 ELSE @,
                   !.max_top = IF Len(s.stack) + 1 > @ THEN Len(s.stack) + 1 ELSE @]
    ELSE \* pop, assign the next in-order rank, go to the right child
         LET top == s.stack[Len(s.stack)] IN
         [s EXCEPT !.stack = SubSeq(s.stack, 1, Len(s.stack) - 1),
                   !.map = Store(s.map, top, s.sorted_idx),
                   !.sorted_idx = @ + 1,
                   !.cur = 2 * top + 2]

\* the loop run for at most `fuel` steps (the steps are halved between the
\* two recursive calls, which keeps the evaluation shallow)
RECURSIVE InorderLoop(_, _, _)
InorderLoop(s, n, fuel) ==
    IF fuel = 0 \/ InorderDone(s, n) THEN s
    ELSE IF fuel = 1 THEN InorderStep(s, n)
    ELSE InorderLoop(InorderLoop(s, n, fuel \div 2), n, fuel - fuel \div 2)

\* bfs_to_sorted is pre-filled with SIZE_MAX (representative -1); every node
\* is pushed once and popped once, so 2n steps end the loop
build_inorder_map(n) ==
    InorderLoop([map |-> [i \in 0..(n - 1) |-> -1], stack |-> << >>, cur |-> 0,
                 sorted_idx |-> 0, stack_cap |-> 64, reallocs |-> 0,
                 max_top |-> 0], n, 2 * n)

\* variant: the keys are taken from the far end of the array
BfsTreeMirrored(sorted_keys, n, tree_nodes, bfs_to_sorted) ==
    [i \in 0..(tree_nodes - 1) |->
        IF bfs_to_sorted[i] >= 0 /\ bfs_to_sorted[i] < n
        THEN sorted_keys[n - 1 - bfs_to_sorted[i]] ELSE FAST_KEY_MAX]

\* bfs_tree[i] = sorted_keys[bfs_to_sorted[i]] when that rank is < n, else the
\* sentinel.  SIZE_MAX (an entry never assigned) is not < n.
BfsTree(sorted_keys, n, tree_nodes, bfs_to_sorted) ==
    [i \in 0..(tree_nodes - 1) |->
        IF bfs_to_sorted[i] >= 0 /\ bfs_to_sorted[i] < n
        THEN sorted_keys[bfs_to_sorted[i]] ELSE FAST_KEY_MAX]

\* ------------------------------------------------------- allocation events
\* The construction's heap traffic is recorded as a sequence of events; an
\* allocation's id is its position among the allocation attempts of the call.
AllocEv(id, kind) == [op |-> "alloc", id |-> id, kind |-> kind]
FreeEv(id) == [op |-> "free", id |-> id, kind |-> "-"]

\* ------------------------------------------------------- write_bfs_block
\* w: the loop's locals (queue, head, count, levels_done, level_remaining,
\* next_level_count) and the output arrays.  `node` is a ghost array that
\* records which BFS index each layout slot received.
\* while (head < tail && levels_done < depth)
WriteDone(w, depth) == ~(w.head < Len(w.queue) /\ w.levels_done < depth)

WriteStep(w, bfs_tree, out_pos, depth, total) ==
    LET nd == w.queue[w.head + 1]
        left == 2 * nd + 1
        right == 2 * nd + 2
        q1 == IF left < total /\ w.levels_done + 1 < depth
              THEN Append(w.queue, left) ELSE w.queue
        q2 == IF right < total /\ w.levels_done + 1 < depth
              THEN Append(q1, right) ELSE q1
        nlc == w.next_level_count + (Len(q2) - Len(w.queue))
        lr == w.level_remaining - 1
    IN [queue |-> q2,
        head |-> w.head + 1,
        count |-> w.count + 1,
        levels_done |-> IF lr = 0 THEN w.levels_done + 1 ELSE w.levels_done,
        level_remaining |-> IF lr = 0 THEN nlc ELSE lr,
        next_level_count |-> IF lr = 0 THEN 0 ELSE nlc,
        out |-> Store(w.out, out_pos + w.count, bfs_tree[nd]),
        node |-> Store(w.node, out_pos + w.count, nd)]

RECURSIVE WriteLoop(_, _, _, _, _, _)
WriteLoop(w, bfs_tree, out_pos, depth, total, fuel) ==
    IF fuel = 0 \/ WriteDone(w, depth) THEN w
    ELSE IF fuel = 1 THEN WriteStep(w, bfs_tree, out_pos, depth, total)
    ELSE WriteLoop(WriteLoop(w, bfs_tree, out_pos, depth, total, fuel \div 2),
                   bfs_tree, out_pos, depth, total, fuel - fuel \div 2)

\* L: the layout under construction: out, node (ghost), pos (*out_pos), the
\* event sequence ev, the number of allocation attempts so far, nalloc, and
\* calls (ghost): one entry per completed call of lay_out_subtree, in order of
\* return, with its arguments and *out_pos at entry (from) and at return (to).
\* The result has the block written, *out_pos advanced by the count returned,
\* and the queue's malloc and free recorded.  The loop writes one node per
\* iteration and a block of `depth` levels has fewer than 2^depth nodes.
BlockWritten(w, L, id) ==
    [out |-> w.out, node |-> w.node, pos |-> L.pos + w.count,
     ev |-> L.ev \o <<AllocEv(id, "queue"), FreeEv(id)>>,
     nalloc |-> id, calls |-> L.calls]

write_bfs_block(L, bfs_tree, bfs_root, depth, total) ==
    BlockWritten(WriteLoop([queue |-> IF bfs_root < total THEN <<bfs_root>> ELSE << >>,
                            head |-> 0, count |-> 0, levels_done |-> 0,
                            level_remaining |-> 1, next_level_count |-> 0,
                            out |-> L.out, node |-> L.node],
                           bfs_tree, L.pos, depth, total, Shl1(depth)),
                 L, L.nalloc + 1)

\* ------------------------------------------------------ collect_children
\* the BFS indices base, base+1, ... `depth` levels below bfs_root that are
\* < total_bfs_nodes, left to right (the loop keeps child = base + i while
\* child < total; the candidates increase with i, so those kept are a prefix)
\* variant: base misses the - 1, the first child is skipped
collect_children_shifted(bfs_root, depth, total) ==
    LET num_children == Shl1(depth)
        base == num_children * (bfs_root + 1)
        count == IF total - base <= 0 THEN 0 ELSE Min(num_children, total - base)
    IN [i \in 1..count |-> base + (i - 1)]

\* variant: the children are listed right to left
collect_children_reversed(bfs_root, depth, total) ==
    LET num_children == Shl1(depth)
        base == num_children * (bfs_root + 1) - 1
        count == IF total - base <= 0 THEN 0 ELSE Min(num_children, total - base)
    IN [i \in 1..count |-> base + (count - i)]

collect_children(bfs_root, depth, total) ==
    LET num_children == Shl1(depth)
        base == num_children * (bfs_root + 1) - 1
        count == IF total - base <= 0 THEN 0 ELSE Min(num_children, total - base)
    IN [i \in 1..count |-> base + (i - 1)]

\* ------------------------------------------------------- lay_out_subtree
\* e, with x evaluated first: statements run in program order, so the layout
\* state one call leaves is complete before the next call starts from it
After(x, e) == IF x = x THEN e ELSE e

RECURSIVE lay_out_subtree(_, _, _, _, _, _, _)
RECURSIVE LayOutChildren(_, _, _, _, _, _, _, _, _)
RECURSIVE LayOutRest(_, _, _, _, _, _, _, _, _)

\* the children numbered lo..hi, from the layout state L1 that the children
\* before them left
LayOutRest(L1, bfs_tree, children, lo, hi, remaining_depth, blocking_level, depths, total) ==
    After(L1, LayOutChildren(L1, bfs_tree, children, lo, hi, remaining_depth,
                             blocking_level, depths, total))

\* for (i = 0; i < nchildren; i++) lay_out_subtree(children[i], ...), here for
\* the children numbered lo..hi in order (the range is halved between the two
\* recursive calls, which keeps the evaluation shallow)
LayOutChildren(L, bfs_tree, children, lo, hi, remaining_depth, blocking_level, depths, total) ==
    IF lo > hi THEN L
    ELSE IF lo = hi
    THEN lay_out_subtree(L, bfs_tree, children[lo], remaining_depth,
                         blocking_level, depths, total)
    ELSE LayOutRest(LayOutChildren(L, bfs_tree, children, lo, (lo + hi) \div 2,
                                   remaining_depth, blocking_level, depths, total),
                    bfs_tree, children, (lo + hi) \div 2 + 1, hi,
                    remaining_depth, blocking_level, depths, total)

\* all of `children`, in order
LayOutAll(L1, bfs_tree, children, remaining_depth, blocking_level, depths, total) ==
    LayOutRest(L1, bfs_tree, children, 1, Len(children), remaining_depth,
               blocking_level, depths, total)

\* base case, after the block is written (L1): the subtrees below it, if any
BelowBlock(L1, bfs_tree, bfs_root, remaining_depth, actual_depth, block_depth, blocking_level, depths, total) ==
    IF remaining_depth > block_depth
    THEN LayOutAll(L1, bfs_tree, collect_children(bfs_root, actual_depth, total),
                   remaining_depth - actual_depth, blocking_level, depths, total)
    ELSE L1

\* malloc of the child list, as allocation attempt id
ChildrenAlloc(L1, id) ==
    [L1 EXCEPT !.ev = Append(@, AllocEv(id, "children")), !.nalloc = id]

\* free(children)
ChildrenFree(L3, id) == After(L3, [L3 EXCEPT !.ev = Append(@, FreeEv(id))])

\* recursive case, after the top block is laid out (L1): the subtrees
\* block_depth levels down, at this blocking level
BelowTop(L1, bfs_tree, bfs_root, remaining_depth, block_depth, blocking_level, depths, total) ==
    After(L1, ChildrenFree(LayOutAll(ChildrenAlloc(L1, L1.nalloc + 1), bfs_tree,
                                     collect_children(bfs_root, block_depth, total),
                                     remaining_depth - block_depth, blocking_level,
                                     depths, total),
                           L1.nalloc + 1))

\* ghost: the call that started at layout state L and left R is logged
LogCall(R, L, bfs_root, remaining_depth, blocking_level) ==
    After(R, [R EXCEPT !.calls = Append(@, [root |-> bfs_root,
                                            depth |-> remaining_depth,
                                            level |-> blocking_level,
                                            from |-> L.pos, to |-> R.pos])])

\* the body of lay_out_subtree past its early return
LayOutBlock(L, bfs_tree, bfs_root, remaining_depth, block_depth, blocking_level, depths, total) ==
    IF remaining_depth <= block_depth \/ blocking_level = 0
    THEN \* base case: the block in plain BFS order, then the subtrees below it
         BelowBlock(write_bfs_block(L, bfs_tree, bfs_root,
                                    Min(remaining_depth, block_depth), total),
                    bfs_tree, bfs_root, remaining_depth,
                    Min(remaining_depth, block_depth), block_depth,
                    blocking_level, depths, total)
    ELSE \* recursive case: the top block at the next finer level, then the
         \* subtrees block_depth levels down at this level
         BelowTop(lay_out_subtree(L, bfs_tree, bfs_root, block_depth,
                                  blocking_level - 1, depths, total),
                  bfs_tree, bfs_root, remaining_depth, block_depth,
                  blocking_level, depths, total)

lay_out_subtree(L, bfs_tree, bfs_root, remaining_depth, blocking_level, depths, total) ==
    IF remaining_depth <= 0 \/ bfs_root >= total THEN L
    ELSE LogCall(LayOutBlock(L, bfs_tree, bfs_root, remaining_depth,
                             depths[blocking_level], blocking_level, depths, total),
                 L, bfs_root, remaining_depth, blocking_level)

\* ----------------------------------------------------- fast_build_layout
\* int depths[3] = { FAST_DK, FAST_DL, t->d_p }
Depths(d_p) == [l \in 0..2 |-> IF l = 0 THEN FAST_DK ELSE IF l = 1 THEN FAST_DL ELSE d_p]

StartLevel(d_n) == IF d_n <= FAST_DK THEN 0 ELSE IF d_n <= FAST_DL THEN 1 ELSE 2

\* variant: no bytes are added after the rounding to a cache line
LayoutSlotsNoPad(tree_nodes) == ((((tree_nodes * 4) + 63) \div 64) * 64) \div 4

\* number of int32 slots in the layout allocation:
\* layout_bytes = ((tree_nodes * 4 + 63) / 64) * 64 + 16
LayoutSlots(tree_nodes) == ((((tree_nodes * 4) + 63) \div 64) * 64 + 16) \div 4

\* the allocation attempts of build_inorder_map after the first: one per realloc,
\* each followed by the release of the block it replaces
RECURSIVE StackReallocs(_, _, _)
StackReallocs(r, id, ev) ==
    IF r = 0 THEN [ev |-> ev, id |-> id]
    ELSE StackReallocs(r - 1, id + 1, ev \o <<AllocEv(id + 1, "stack"), FreeEv(id)>>)

\* the layout block as posix_memalign and the sentinel fill leave it, with
\* the allocation events so far (ids 2..4 keys, bfs_tree, bfs_to_sorted; 5..
\* the stack and its reallocs; then the layout)
EmptyLayout(slots, stk) ==
    [out |-> [i \in 0..(slots - 1) |-> FAST_KEY_MAX],
     node |-> [i \in 0..(slots - 1) |-> -1],
     pos |-> 0,
     ev |-> <<AllocEv(2, "keys"), AllocEv(3, "bfs_tree"), AllocEv(4, "bfs_to_sorted")>>
            \o stk.ev \o <<FreeEv(stk.id), FreeEv(4), AllocEv(stk.id + 1, "layout")>>,
     nalloc |-> stk.id + 1, calls |-> << >>]

\* what the build leaves: the fields stored in *t (layout_size and sorted_rank
\* keep calloc's zeroes), the ghost node array and call log, the final
\* out_pos, and the allocation events in program order
BuildResult(L, sorted_keys, n, d_n, d_p, tree_nodes, page_size, bfs_tree, max_top, layout_id) ==
    [t |-> [layout |-> L.out, sorted_rank |-> NULL,
            keys |-> [i \in 0..(n - 1) |-> sorted_keys[i]],
            n |-> n, layout_size |-> 0, tree_nodes |-> tree_nodes,
            d_n |-> d_n, d_p |-> d_p, n_p |-> Shl1(d_p) - 1,
            page_size |-> page_size],
     node |-> L.node,
     bfs_tree |-> bfs_tree,
     out_pos |-> L.pos,
     calls |-> L.calls,
     max_top |-> max_top,
     keys_id |-> 2, layout_id |-> layout_id,
     ev |-> L.ev \o <<FreeEv(3)>>]

\* the layout phase, given the BFS array and the stack's allocation events
BuildLayout(sorted_keys, n, d_n, d_p, tree_nodes, page_size, bfs_tree, stk, max_top) ==
    BuildResult(lay_out_subtree(EmptyLayout(LayoutSlots(tree_nodes), stk), bfs_tree,
                                0, d_n, StartLevel(d_n), Depths(d_p), tree_nodes),
                sorted_keys, n, d_n, d_p, tree_nodes, page_size, bfs_tree,
                max_top, stk.id + 1)

\* the BFS phase, given the in-order map io
BuildBfs(sorted_keys, n, d_n, d_p, tree_nodes, page_size, io) ==
    BuildLayout(sorted_keys, n, d_n, d_p, tree_nodes, page_size,
                BfsTree(sorted_keys, n, tree_nodes, io.map),
                StackReallocs(io.reallocs, 5, <<AllocEv(5, "stack")>>),
                io.max_top)

\* the build once d_n and the page size are known
BuildSized(sorted_keys, n, d_n, page_size) ==
    BuildBfs(sorted_keys, n, d_n, ComputeDp(page_size), Shl1(d_n) - 1, page_size,
             build_inorder_map(Shl1(d_n) - 1))

\* The run of fast_build_layout in which every allocation succeeds, called
\* with the handle already allocated as attempt 1.
fast_build_layout(sorted_keys, n, ps) ==
    BuildSized(sorted_keys, n, ComputeDn(n), PageSizeOf(ps))

\* ------------------------------------------------------------- the heap
\* live: the blocks allocated and not yet released; bad: a release of a
\* block that is not live (a double free) has happened.
EmptyHeap == [live |-> {}, bad |-> FALSE]

\* free(p): nothing for a null pointer
Free(h, id) ==
    IF id = NULL THEN h
    ELSE IF \E b \in h.live : b.id = id
    THEN [h EXCEPT !.live = {b \in @ : b.id # id}]
    ELSE [h EXCEPT !.bad = TRUE]

IdOf(h, kind) == IF \E b \in h.live : b.kind = kind
                 THEN (CHOOSE b \in h.live : b.kind = kind).id ELSE NULL

\* The heap that the events of ev leave when run from an empty heap up to,
\* and not including, allocation attempt `stop` (0: to the end): a block is
\* live when it was allocated and not released since; a release is bad when
\* its block is not live at that point.
HeapAfter(ev, stop) ==
    LET last == IF \E i \in 1..Len(ev) : ev[i].op = "alloc" /\ ev[i].id = stop
                THEN (CHOOSE i \in 1..Len(ev) : ev[i].op = "alloc" /\ ev[i].id = stop) - 1
                ELSE Len(ev)
        LiveAt(i, j) == \* the block allocated by event i is live just before event j
            ~\E k \in (i + 1)..(j - 1) : ev[k].op = "free" /\ ev[k].id = ev[i].id
    IN [live |-> {[id |-> ev[i].id, kind |-> ev[i].kind] :
                    i \in {i \in 1..last : ev[i].op = "alloc" /\ LiveAt(i, last + 1)}},
        bad |-> \E j \in 1..last :
                   /\ ev[j].op = "free"
                   /\ ~\E i \in 1..(j - 1) :
                         ev[i].op = "alloc" /\ ev[i].id = ev[j].id /\ LiveAt(i, j)]

KindOfAttempt(ev, k) ==
    IF \E i \in 1..Len(ev) : ev[i].op = "alloc" /\ ev[i].id = k
    THEN ev[CHOOSE i \in 1..Len(ev) : ev[i].op = "alloc" /\ ev[i].id = k].kind
    ELSE "none"

NumAttempts(ev) == Cardinality({i \in 1..Len(ev) : ev[i].op = "alloc"})

\* ------------------------------------------------------------ fast_create
\* variant: a single key is refused as well
InvalidInputOffByOne(keys_ptr, n) == keys_ptr = NULL \/ n <= 1

\* if (!keys || n == 0) return NULL;
InvalidInput(keys_ptr, n) == keys_ptr = NULL \/ n = 0

\* fast_build_layout's own cleanup when the allocation of `kind` fails
\* (it then returns -1); the handle is released by fast_create.
BuildCleanup(h, kind) ==
    CASE kind = "keys" -> h
      [] kind = "bfs_tree" -> Free(h, IdOf(h, "keys"))
      [] kind = "bfs_to_sorted" -> Free(Free(h, IdOf(h, "bfs_tree")), IdOf(h, "keys"))
      [] kind = "layout" -> Free(Free(h, IdOf(h, "bfs_tree")), IdOf(h, "keys"))
      [] OTHER -> h

\* the allocations whose result is tested before use
Checked(kind) == kind \in {"tree", "keys", "bfs_tree", "bfs_to_sorted", "layout"}

NoTree == [layout |-> << >>, sorted_rank |-> NULL, keys |-> << >>, n |-> 0,
           layout_size |-> 0, tree_nodes |-> 0, d_n |-> 0, d_p |-> 0, n_p |-> 0,
           page_size |-> 0]

NoPtr == [tree |-> NULL, layout |-> NULL, sorted_rank |-> NULL, keys |-> NULL]

\* The run of fast_create(keys, n) under page-size report ps in which every
\* allocation succeeds: attempt 1 is the handle's calloc.
NoRun == [t |-> NoTree, node |-> << >>, bfs_tree |-> << >>, out_pos |-> 0,
          calls |-> << >>, max_top |-> 0, keys_id |-> NULL, layout_id |-> NULL, ev |-> << >>]

CreateRun(keys_ptr, sorted_keys, n, ps) ==
    IF InvalidInput(keys_ptr, n) THEN NoRun
    ELSE [fast_build_layout(sorted_keys, n, ps) EXCEPT !.ev = <<AllocEv(1, "tree")>> \o @]

\* The outcome of fast_create(keys, n) whose all-succeeding run is `run`, when
\* allocation attempt number `fail` (0: none) fails.  res is "handle", "null"
\* or "crash"; a store through the null pointer that an untested malloc
\* returned (stack, queue, children) ends the process.
fast_create_outcome(keys_ptr, n, run, fail) ==
    IF InvalidInput(keys_ptr, n)
    THEN [res |-> "null", t |-> NoTree, ptr |-> NoPtr, heap |-> EmptyHeap,
          failed |-> "none"]
    ELSE
    LET kind == KindOfAttempt(run.ev, fail)
        h == HeapAfter(run.ev, fail)
    IN IF kind = "none"
       THEN [res |-> "handle", t |-> run.t,
             ptr |-> [tree |-> 1, layout |-> run.layout_id, sorted_rank |-> NULL,
                      keys |-> run.keys_id],
             heap |-> h, failed |-> kind]
       ELSE IF kind = "tree"
       THEN [res |-> "null", t |-> NoTree, ptr |-> NoPtr, heap |-> h, failed |-> kind]
       ELSE IF Checked(kind)
       THEN [res |-> "null", t |-> NoTree, ptr |-> NoPtr,
             heap |-> Free(BuildCleanup(h, kind), 1), failed |-> kind]
       ELSE [res |-> "crash", t |-> NoTree, ptr |-> NoPtr, heap |-> h, failed |-> kind]

\* ----------------------------------------------------------- fast_destroy
\* variant: the key copy is not released
DestroyFreesLeakKeys(p) == <<p.layout, p.sorted_rank, p.tree>>

\* free(tree->layout); free(tree->sorted_rank); free(tree->keys); free(tree);
DestroyFrees(p) == <<p.layout, p.sorted_rank, p.keys, p.tree>>

RECURSIVE FreeAll(_, _, _)
FreeAll(h, ps, i) == IF i > Len(ps) THEN h ELSE FreeAll(Free(h, ps[i]), ps, i + 1)

\* ------------------------------------------------- search on sorted keys
\* the tail of fast_search_sse and fast_search_scalar: largest index whose
\* key is <= key, by bisection of t->keys
RECURSIVE PredLoop(_, _, _, _)
PredLoop(keys, key, lo, hi) ==
    IF lo < hi
    THEN LET mid == lo + (hi - lo + 1) \div 2
         IN IF keys[mid] <= key THEN PredLoop(keys, key, mid, hi)
            ELSE PredLoop(keys, key, lo, mid - 1)
    ELSE lo

FinalAnswer(t, key) ==
    IF key < t.keys[0] THEN -1
    ELSE IF key >= t.keys[t.n - 1] THEN t.n - 1
    ELSE PredLoop(t.keys, key, 0, t.n - 1)

\* the indices of t->keys that the bisection loop reads, in order (keys[mid]
\* once per iteration)
RECURSIVE PredReads(_, _, _, _)
PredReads(keys, key, lo, hi) ==
    IF lo < hi
    THEN LET mid == lo + (hi - lo + 1) \div 2
         IN <<mid>> \o (IF keys[mid] <= key THEN PredReads(keys, key, mid, hi)
                        ELSE PredReads(keys, key, lo, mid - 1))
    ELSE << >>

\* the indices of t->keys read after the walk: keys[0], then keys[n-1], then
\* the loop's
FinalReads(t, key) ==
    IF key < t.keys[0] THEN <<0>>
    ELSE IF key >= t.keys[t.n - 1] THEN <<0, t.n - 1>>
    ELSE <<0, t.n - 1>> \o PredReads(t.keys, key, 0, t.n - 1)

\* ------------------------------------------------------ the tree walks
\* child_subtree_size = ((size_t)1 << depth_remaining) - 1
ChildSubtreeSize(t, depth_remaining) ==
    IF depth_remaining >= 64 THEN t.tree_nodes ELSE Shl1(depth_remaining) - 1

\* a read of `width` int32 slots at tree + offset lies inside the layout block
InBlock(t, offset, width) ==
    offset >= 0 /\ offset + width <= LayoutSlots(t.tree_nodes)

Bit(b) == IF b THEN 1 ELSE 0

\* _mm_movemask_ps(_mm_cmpgt_epi32(v_key, v_tree)): bit i = (key > lane i)
Movemask(t, key, offset) ==
    Bit(key > t.layout[offset]) + 2 * Bit(key > t.layout[offset + 1])
    + 4 * Bit(key > t.layout[offset + 2]) + 8 * Bit(key > t.layout[offset + 3])

\* The while loop of fast_search_sse.  s holds offset, depth_remaining,
\* child_index, and ghosts: the visits made (offset, keys compared, mask,
\* child chosen), whether the loop has ended, and whether a load left the
\* layout block (the walk stops there: what it reads next is not defined).
RECURSIVE SseLoop(_, _, _)
SseLoop(t, key, s) ==
    IF s.depth_remaining <= 0 \/ s.done THEN s
    ELSE
    LET simd_depth == Min(FAST_DK, s.depth_remaining) IN
    IF simd_depth = FAST_DK
    THEN IF ~InBlock(t, s.offset, 4)
         THEN [s EXCEPT !.oob = TRUE, !.done = TRUE,
                        !.visits = Append(@, [offset |-> s.offset, width |-> 3,
                                              mask |-> -1, child |-> -1])]
         ELSE
         LET mask == Movemask(t, key, s.offset)
             child_index == FAST_LOOKUP[mask % 8]
             depth_remaining == s.depth_remaining - FAST_DK
             v == Append(s.visits, [offset |-> s.offset, width |-> 3,
                                    mask |-> mask, child |-> child_index])
         IN IF depth_remaining <= 0
            THEN [s EXCEPT !.child_index = child_index,
                           !.depth_remaining = depth_remaining,
                           !.visits = v, !.done = TRUE]
            ELSE SseLoop(t, key,
                   [s EXCEPT !.child_index = child_index,
                             !.depth_remaining = depth_remaining,
                             !.visits = v,
                             !.offset = (s.offset + FAST_NK)
                                        + child_index * ChildSubtreeSize(t, depth_remaining)])
    ELSE IF simd_depth = 1
    THEN IF ~InBlock(t, s.offset, 1)
         THEN [s EXCEPT !.oob = TRUE, !.done = TRUE,
                        !.visits = Append(@, [offset |-> s.offset, width |-> 1,
                                              mask |-> -1, child |-> -1])]
         ELSE
         LET child_index == IF key > t.layout[s.offset] THEN 1 ELSE 0
             depth_remaining == s.depth_remaining - 1
             v == Append(s.visits, [offset |-> s.offset, width |-> 1,
                                    mask |-> child_index, child |-> child_index])
         IN IF depth_remaining <= 0
            THEN [s EXCEPT !.child_index = child_index,
                           !.depth_remaining = depth_remaining,
                           !.visits = v, !.done = TRUE]
            ELSE SseLoop(t, key,
                   [s EXCEPT !.child_index = child_index,
                             !.depth_remaining = depth_remaining,
                             !.visits = v,
                             !.offset = s.offset + 1
                                        + child_index * (Shl1(depth_remaining) - 1)])
    ELSE [s EXCEPT !.done = TRUE]

WalkStart(t) == [offset |-> 0, depth_remaining |-> t.d_n, child_index |-> 0,
                 visits |-> << >>, done |-> FALSE, oob |-> FALSE]

SseWalk(t, key) == SseLoop(t, key, WalkStart(t))

\* The while loop of fast_search_scalar.
RECURSIVE ScalarLoop(_, _, _)
ScalarLoop(t, key, s) ==
    IF s.depth_remaining <= 0 \/ s.done THEN s
    ELSE
    LET simd_depth == Min(FAST_DK, s.depth_remaining)
        width == IF simd_depth >= 2 THEN 3 ELSE 1
    IN
    IF ~InBlock(t, s.offset, width)
    THEN [s EXCEPT !.oob = TRUE, !.done = TRUE,
                   !.visits = Append(@, [offset |-> s.offset, width |-> width,
                                         mask |-> -1, child |-> -1])]
    ELSE
    LET k0 == t.layout[s.offset]
        child_index ==
            IF simd_depth >= 2
            THEN IF key <= k0
                 THEN (IF key <= t.layout[s.offset + 1] THEN 0 ELSE 1)
                 ELSE (IF key <= t.layout[s.offset + 2] THEN 2 ELSE 3)
            ELSE (IF key > k0 THEN 1 ELSE 0)
        depth_remaining == s.depth_remaining - (IF simd_depth >= 2 THEN 2 ELSE 1)
        simd_keys == IF simd_depth >= 2 THEN FAST_NK ELSE 1
        v == Append(s.visits, [offset |-> s.offset, width |-> width,
                               mask |-> child_index, child |-> child_index])
    IN IF depth_remaining <= 0
       THEN [s EXCEPT !.child_index = child_index,
                      !.depth_remaining = depth_remaining,
                      !.visits = v, !.done = TRUE]
       ELSE ScalarLoop(t, key,
              [s EXCEPT !.child_index = child_index,
                        !.depth_remaining = depth_remaining,
                        !.visits = v,
                        !.offset = s.offset + simd_keys
                                   + child_index * (Shl1(depth_remaining) - 1)])

ScalarWalk(t, key) == ScalarLoop(t, key, WalkStart(t))

\* An outcome of a call: it returned val, or the process ended (crash).
Ret(val) == [crash |-> FALSE, val |-> val]
Crash == [crash |-> TRUE, val |-> 0]

\* if (d_n == 0) { *result = (t->n > 0 && key >= t->keys[0]) ? 0 : -1; return; }
DepthZero(t, key) == IF t.n > 0 /\ key >= t.keys[0] THEN 0 ELSE -1

\* fast_search_sse: the walk, then the answer from t->keys.  A load outside
\* the layout block is undefined: the process may end there, or the load
\* yields some value and the call goes on to the answer from t->keys.
fast_search_sse_outcomes(t, key) ==
    IF t.d_n = 0 THEN {Ret(DepthZero(t, key))}
    ELSE IF SseWalk(t, key).oob THEN {Crash, Ret(FinalAnswer(t, key))}
    ELSE {Ret(FinalAnswer(t, key))}

fast_search_scalar_outcomes(t, key) ==
    IF t.d_n = 0 THEN {Ret(DepthZero(t, key))}
    ELSE IF ScalarWalk(t, key).oob THEN {Crash, Ret(FinalAnswer(t, key))}
    ELSE {Ret(FinalAnswer(t, key))}

\* the block visits (loads from the layout) that a search of t has made when
\* it first compares key with t->keys[0]: the whole walk, since the loop
\* comes first in both functions
VisitsBeforeKeys(sse, t, key) ==
    IF t.d_n = 0 THEN << >>
    ELSE IF sse THEN SseWalk(t, key).visits ELSE ScalarWalk(t, key).visits

\* fast_search: -1 for a null or empty tree, else the walk the build selects
fast_search_outcomes(sse, tree_ptr, t, key) ==
    IF tree_ptr = NULL \/ t.n = 0 THEN {Ret(-1)}
    ELSE IF sse THEN fast_search_sse_outcomes(t, key)
    ELSE fast_search_scalar_outcomes(t, key)

\* ---------------------------------------------- fast_search_lower_bound
\* variant: the bisection tests keys[mid] <= key (an upper bound)
RECURSIVE LowerLoopUpper(_, _, _, _)
LowerLoopUpper(keys, key, lo, hi) ==
    IF lo < hi
    THEN LET mid == lo + (hi - lo) \div 2
         IN IF keys[mid] <= key THEN LowerLoopUpper(keys, key, mid + 1, hi)
            ELSE LowerLoopUpper(keys, key, lo, mid)
    ELSE lo

\* while (lo < hi) { mid = lo + (hi - lo) / 2; ... }
RECURSIVE LowerLoop(_, _, _, _)
LowerLoop(keys, key, lo, hi) ==
    IF lo < hi
    THEN LET mid == lo + (hi - lo) \div 2
         IN IF keys[mid] < key THEN LowerLoop(keys, key, mid + 1, hi)
            ELSE LowerLoop(keys, key, lo, mid)
    ELSE lo

fast_search_lower_bound_ret(tree_ptr, t, key) ==
    IF tree_ptr = NULL \/ t.n = 0 THEN 0
    ELSE IF key <= t.keys[0] THEN 0
    ELSE IF key > t.keys[t.n - 1] THEN t.n
    ELSE LowerLoop(t.keys, key, 0, t.n - 1)

\* ------------------------------------------------- fast_size, fast_key_at
fast_size_ret(tree_ptr, t) == IF tree_ptr # NULL THEN t.n ELSE 0

\* variant: the range test is off by one, the last key cannot be read
fast_key_at_ret_short(tree_ptr, t, index) ==
    IF tree_ptr = NULL \/ index >= t.n - 1 THEN 0 ELSE t.keys[index]

fast_key_at_ret(tree_ptr, t, index) ==
    IF tree_ptr = NULL \/ index >= t.n THEN 0 ELSE t.keys[index]

\* =================================================== the state machine
\* One client drives one index: it calls an entry point (the whole call is
\* one step), then takes the result.
VARIABLES
    have_sse,   \* FAST_HAVE_SSE of the build
    pc,         \* "idle", "returned" (a call's result is in op), "crashed"
    K,          \* the caller's key array behind the live index (empty if none)
    tree,       \* *handle: the fields of struct fast_tree (arrays by content)
    ptr,        \* the handle and the pointers it holds (block ids, NULL = 0)
    heap,       \* the blocks that are live, and whether a bad free happened
    freed,      \* the pointers the last call passed to free(), in order
    op,         \* the last call: fn, h (handle or key pointer), arg, fail, ret
    readers,    \* per reader thread: the query it is running and how far it is
    page_report \* what sysconf(_SC_PAGESIZE) returned to the last fast_create

vars == <<have_sse, pc, K, tree, ptr, heap, freed, op, readers, page_report>>

\* ------------------------------------------------------------- inputs
KeyDom == {INT32_MIN, 0, 2, FAST_KEY_MAX}

\* every key array of length 0..MaxSmallLen over KeyDom, sorted or not
SmallArrays == UNION {[0..(len - 1) -> KeyDom] : len \in 0..MaxSmallLen}

LargeSizes == {7, 10, 15, 31, MaxLargeN}

\* sorted arrays of distinct keys 0,2,4,... and of paired keys 0,0,2,2,...
LargeArrays == {[i \in 0..(n - 1) |-> 2 * i] : n \in LargeSizes}
               \cup {[i \in 0..(n - 1) |-> 2 * (i \div 2)] : n \in LargeSizes}

KeyArrays == SmallArrays \cup LargeArrays

Length(a) == Cardinality(DOMAIN a)

\* what sysconf(_SC_PAGESIZE) reports: failure, tiny pages (page blocks of 4
\* and of 5 levels, so that trees of the sizes explored here span several
\* page blocks), 4 KiB, 2 MiB
PageSizeReports == {-1, 64, 128, 4096, 2097152}

\* queries: the extremes, and each key with its neighbours
Near(k) == IF k > -1000000 /\ k < 1000000 THEN {k - 1, k, k + 1} ELSE {k}
Queries(a) == {INT32_MIN, -1, 0, 1, FAST_KEY_MAX} \cup UNION {Near(a[i]) : i \in DOMAIN a}

IsSorted(a) == \A i \in DOMAIN a : \A j \in DOMAIN a : i <= j => a[i] <= a[j]
IsDistinct(a) == \A i \in DOMAIN a : \A j \in DOMAIN a : i # j => a[i] # a[j]

NoOp == [fn |-> "none", h |-> NULL, arg |-> 0, fail |-> 0, ret |-> 0]

\* the reader threads, and a reader that is not inside a query
Readers == 1..NumReaders
IdleReader == [pc |-> "idle", fn |-> "none", arg |-> 0, alone |-> 0, ret |-> 0]

\* variant: the search plants the key as a stop mark in the slot after the tree
IndexAfterQueryMarked(t, fn, arg) ==
    IF fn = "fast_search" /\ t.tree_nodes > 0
    THEN [t EXCEPT !.layout = Store(@, t.tree_nodes, arg)] ELSE t

\* The index after a query has run on it.  Every entry point takes a
\* const fast_tree_t * and stores only to its locals and to *result.
IndexAfterQuery(t, fn, arg) == t
Call(fn, h, arg, fail, ret) == [fn |-> fn, h |-> h, arg |-> arg, fail |-> fail, ret |-> ret]

Init ==
    /\ have_sse \in BOOLEAN
    /\ pc = "idle"
    /\ K = << >>
    /\ tree = NoTree
    /\ ptr = NoPtr
    /\ heap = EmptyHeap
    /\ freed = << >>
    /\ op = NoOp
    /\ readers = [r \in Readers |-> IdleReader]
    /\ page_report = 0

\* ------------------------------------------------------------- actions
\* fast_create(keys, n): keys is NULL or points at the n keys of a; ps is
\* what sysconf(_SC_PAGESIZE) returns if the call gets as far as the build
CreateReturns(o, keys_ptr, a, fail, ps) ==
    /\ pc' = IF o.res = "crash" THEN "crashed" ELSE "returned"
    /\ page_report' = (IF o.failed \in {"none", "tree"} /\ o.res = "null"
                       THEN page_report ELSE ps)
    /\ K' = IF o.res = "handle" THEN a ELSE << >>
    /\ tree' = o.t
    /\ ptr' = o.ptr
    /\ heap' = o.heap
    /\ freed' = << >>
    /\ op' = Call("fast_create", keys_ptr, Length(a), fail, o.ptr.tree)

\* the call whose all-succeeding run is `run`, with any one allocation
\* attempt failing, or none
CreateFrom(run, keys_ptr, a, ps) ==
    \E fail \in 0..NumAttempts(run.ev) :
        CreateReturns(fast_create_outcome(keys_ptr, Length(a), run, fail),
                      keys_ptr, a, fail, ps)

fast_create(keys_ptr, a, ps) ==
    /\ pc = "idle"
    /\ ptr.tree = NULL
    /\ CreateFrom(CreateRun(keys_ptr, a, Length(a), ps), keys_ptr, a, ps)
    /\ UNCHANGED <<have_sse, readers>>

\* fast_destroy(h): h is NULL or the live handle
fast_destroy(h) ==
    /\ pc = "idle"
    /\ h \in {NULL, ptr.tree}
    /\ LET fs == IF h = NULL THEN << >> ELSE DestroyFrees(ptr) IN
       /\ heap' = FreeAll(heap, fs, 1)
       /\ freed' = fs
    /\ tree' = IF h = NULL THEN tree ELSE NoTree
    /\ ptr' = IF h = NULL THEN ptr ELSE NoPtr
    /\ pc' = "returned"
    /\ K' = IF h = NULL THEN K ELSE << >>
    /\ op' = Call("fast_destroy", h, 0, 0, 0)
    /\ UNCHANGED <<page_report, have_sse, readers>>

\* a query that returned o.val, or ended the process
Answer(fn, h, arg, o) ==
    /\ pc' = IF o.crash THEN "crashed" ELSE "returned"
    /\ op' = Call(fn, h, arg, 0, o.val)
    /\ freed' = << >>
    /\ tree' = IF h = NULL THEN tree ELSE IndexAfterQuery(tree, fn, arg)
    /\ UNCHANGED <<page_report, have_sse, K, ptr, heap, readers>>

fast_search(h, key) ==
    /\ pc = "idle"
    /\ h \in {NULL, ptr.tree}
    /\ \E o \in fast_search_outcomes(have_sse, h, tree, key) :
         Answer("fast_search", h, key, o)

\* the two walks, called directly on a live index
fast_search_sse(key) ==
    /\ pc = "idle"
    /\ ptr.tree # NULL
    /\ \E o \in (IF have_sse THEN fast_search_sse_outcomes(tree, key)
                 ELSE fast_search_scalar_outcomes(tree, key)) :
         Answer("fast_search_sse", ptr.tree, key, o)

fast_search_scalar(key) ==
    /\ pc = "idle"
    /\ ptr.tree # NULL
    /\ \E o \in fast_search_scalar_outcomes(tree, key) :
         Answer("fast_search_scalar", ptr.tree, key, o)

fast_search_lower_bound(h, key) ==
    /\ pc = "idle"
    /\ h \in {NULL, ptr.tree}
    /\ Answer("fast_search_lower_bound", h, key,
              Ret(fast_search_lower_bound_ret(h, tree, key)))

fast_size(h) ==
    /\ pc = "idle"
    /\ h \in {NULL, ptr.tree}
    /\ Answer("fast_size", h, 0, Ret(fast_size_ret(h, tree)))

fast_key_at(h, index) ==
    /\ pc = "idle"
    /\ h \in {NULL, ptr.tree}
    /\ Answer("fast_key_at", h, index, Ret(fast_key_at_ret(h, tree, index)))

\* the caller takes the result and is ready for its next call
Return ==
    /\ pc = "returned"
    /\ pc' = "idle"
    /\ op' = NoOp
    /\ freed' = << >>
    /\ UNCHANGED <<page_report, have_sse, K, tree, ptr, heap, readers>>

Next ==
    \/ \E keys_ptr \in {NULL, 1}, a \in KeyArrays, ps \in PageSizeReports :
         fast_create(keys_ptr, a, ps)
    \/ \E h \in {NULL, 1} : fast_destroy(h)
    \/ \E h \in {NULL, 1}, key \in Queries(K) : fast_search(h, key)
    \/ \E key \in Queries(K) : fast_search_sse(key)
    \/ \E key \in Queries(K) : fast_search_scalar(key)
    \/ \E h \in {NULL, 1}, key \in Queries(K) : fast_search_lower_bound(h, key)
    \/ \E h \in {NULL, 1} : fast_size(h)
    \/ \E h \in {NULL, 1}, index \in 0..(Length(K) + 1) : fast_key_at(h, index)
    \/ Return

Spec == Init /\ [][Next]_vars

\* ============================================ concurrent reader threads
\* After fast_create has returned, reader threads query the one index with
\* no synchronisation.  A query is three steps of its thread: the call, the
\* tree walk (reads of the layout), and the answer (reads of the key copy).
ReaderArrays == {[i \in 0..2 |-> IF i = 0 THEN 0 ELSE 2],
                 [i \in 0..(MaxLargeN - 1) |-> 2 * i]}

ReaderCalls ==
    ({"fast_search", "fast_search_lower_bound"} \X {1, 2, 31})
    \cup {<<"fast_size", 0>>} \cup ({"fast_key_at"} \X {0, 3})

\* the value a query returns on index t
QueryValue(t, fn, arg) ==
    CASE fn = "fast_search" ->
           (CHOOSE o \in fast_search_outcomes(have_sse, 1, t, arg) : ~o.crash).val
      [] fn = "fast_search_lower_bound" -> fast_search_lower_bound_ret(1, t, arg)
      [] fn = "fast_size" -> fast_size_ret(1, t)
      [] OTHER -> fast_key_at_ret(1, t, arg)

\* the walk of fast_search(arg) on t makes a load outside the layout block
WalkLeavesBlock(t, arg) ==
    /\ t.n > 0 /\ t.d_n > 0
    /\ (IF have_sse THEN SseWalk(t, arg) ELSE ScalarWalk(t, arg)).oob

\* reader r enters fn(tree, arg); alone is what the call returns if it runs
\* with no other thread active
ReaderCall(r, fn, arg) ==
    /\ pc = "idle"
    /\ ptr.tree # NULL
    /\ readers[r].pc = "idle"
    /\ readers' = [readers EXCEPT ![r] = [pc |-> "walk", fn |-> fn, arg |-> arg,
                                          alone |-> QueryValue(tree, fn, arg),
                                          ret |-> 0]]
    /\ UNCHANGED <<page_report, have_sse, pc, K, tree, ptr, heap, freed, op>>

\* reader r does the reads that precede its answer; an out-of-bounds load
\* may end the process
ReaderWalk(r) ==
    /\ pc = "idle"
    /\ readers[r].pc = "walk"
    /\ \E crash \in (IF readers[r].fn = "fast_search"
                        /\ WalkLeavesBlock(tree, readers[r].arg)
                     THEN BOOLEAN ELSE {FALSE}) :
          pc' = IF crash THEN "crashed" ELSE pc
    /\ readers' = [readers EXCEPT ![r].pc = "answer"]
    /\ tree' = IndexAfterQuery(tree, readers[r].fn, readers[r].arg)
    /\ UNCHANGED <<page_report, have_sse, K, ptr, heap, freed, op>>

\* reader r computes its result from the index as it is now
ReaderAnswer(r) ==
    /\ pc = "idle"
    /\ readers[r].pc = "answer"
    /\ readers' = [readers EXCEPT ![r].pc = "done",
                                  ![r].ret = QueryValue(tree, readers[r].fn,
                                                        readers[r].arg)]
    /\ UNCHANGED <<page_report, have_sse, pc, K, tree, ptr, heap, freed, op>>

\* reader r takes its result
ReaderReturn(r) ==
    /\ pc = "idle"
    /\ readers[r].pc = "done"
    /\ readers' = [readers EXCEPT ![r] = IdleReader]
    /\ UNCHANGED <<page_report, have_sse, pc, K, tree, ptr, heap, freed, op>>

ReadersNext ==
    \/ \E a \in ReaderArrays : fast_create(1, a, 4096)
    \/ Return
    \/ \E r \in Readers, c \in ReaderCalls : ReaderCall(r, c[1], c[2])
    \/ \E r \in Readers : ReaderWalk(r)
    \/ \E r \in Readers : ReaderAnswer(r)
    \/ \E r \in Readers : ReaderReturn(r)

SpecReaders == Init /\ [][ReadersNext]_vars

\* ============================================== page sizes of the system
\* The same client on systems of every page size: failure of the query,
\* 512 bytes up to 1 MiB, and the huge pages of 2 MiB, 4 MiB and 1 GiB.
PageSizes == {-1, 0, 512, 1024, 4096, 8192, 16384, 65536, 1048576,
              2097152, 4194304, 1073741824}

PageArrays == {[i \in 0..(n - 1) |-> 2 * i] : n \in 1..MaxSmallLen}

PagesNext ==
    \/ \E a \in PageArrays, ps \in PageSizes : fast_create(1, a, ps)
    \/ fast_destroy(1)
    \/ \E key \in {1, 2} : fast_search(1, key)
    \/ Return

SpecPages == Init /\ [][PagesNext]_vars

\* ======================================================== properties
\* the call recorded in op was made on the live index
OnIndex(fn) == op.fn = fn /\ op.h # NULL

\* C1: on an index built from a non-decreasing K, fast_search(q) returns -1
\* exactly when q < K[0], and otherwise the largest r in [0, n-1] with
\* K[r] <= q (so r = n-1 or q < K[r+1]).
C1_Predecessor ==
    (OnIndex("fast_search") /\ IsSorted(K)) =>
        /\ pc = "returned"
        /\ (op.ret = -1) <=> (op.arg < K[0])
        /\ op.ret # -1 =>
             /\ op.ret \in DOMAIN K
             /\ K[op.ret] <= op.arg
             /\ \A j \in DOMAIN K : K[j] <= op.arg => j <= op.ret
             /\ (op.ret = Length(K) - 1 \/ op.arg < K[op.ret + 1])

\* C2: on an index built from a non-decreasing K, K[fast_search(K[i])] = K[i]
\* for every i, and fast_search(K[i]) = i when the keys are distinct.
C2_ExactMatch ==
    (OnIndex("fast_search") /\ IsSorted(K)) =>
        \A i \in DOMAIN K :
            op.arg = K[i] =>
                /\ pc = "returned"
                /\ op.ret \in DOMAIN K
                /\ K[op.ret] = K[i]
                /\ IsDistinct(K) => op.ret = i

\* C3: on an index built from a non-decreasing K (duplicates allowed),
\* fast_search_lower_bound(q) returns the smallest i with K[i] >= q, or n if
\* no key is >= q; so 0 when q <= K[0] and n when q > K[n-1].
C3_LowerBound ==
    (OnIndex("fast_search_lower_bound") /\ IsSorted(K)) =>
        /\ pc = "returned"
        /\ op.ret \in 0..Length(K)
        /\ \A j \in DOMAIN K : (j < op.ret) <=> (K[j] < op.arg)
        /\ op.arg <= K[0] => op.ret = 0
        /\ op.arg > K[Length(K) - 1] => op.ret = Length(K)

\* a lower bound strictly inside an index with a repeated key has been returned
C3_Witness ==
    /\ OnIndex("fast_search_lower_bound") /\ pc = "returned"
    /\ IsSorted(K) /\ ~IsDistinct(K) /\ Length(K) >= 3
    /\ op.ret > 0 /\ op.ret + 1 < Length(K)
    /\ K[op.ret] = K[op.ret + 1]

\* C4: the SIMD walk fast_search_sse returns, for every index and query, the
\* result that the scalar walk fast_search_scalar returns.
C4_SseEqualsScalar ==
    (have_sse /\ OnIndex("fast_search_sse")) =>
        /\ pc = "returned"
        /\ \A o \in fast_search_scalar_outcomes(tree, op.arg) :
              ~o.crash /\ o.val = op.ret

\* C5: on a fixed index both queries are monotone: q1 <= q2 implies
\* fast_search(q1) <= fast_search(q2) and
\* fast_search_lower_bound(q1) <= fast_search_lower_bound(q2).
C5_Monotone ==
    /\ OnIndex("fast_search") =>
         /\ pc = "returned"
         /\ \A q2 \in Queries(K) :
              \A o \in fast_search_outcomes(have_sse, op.h, tree, q2) :
                 /\ ~o.crash
                 /\ op.arg <= q2 => op.ret <= o.val
                 /\ q2 <= op.arg => o.val <= op.ret
    /\ OnIndex("fast_search_lower_bound") =>
         /\ pc = "returned"
         /\ \A q2 \in Queries(K) :
              LET r2 == fast_search_lower_bound_ret(op.h, tree, q2) IN
                 /\ op.arg <= q2 => op.ret <= r2
                 /\ q2 <= op.arg => r2 <= op.ret

\* C6: when the keys of K are distinct (and non-decreasing) and q is not a
\* key, fast_search_lower_bound(q) = fast_search(q) + 1.
C6_Duality ==
    (OnIndex("fast_search") /\ IsSorted(K) /\ IsDistinct(K)
       /\ ~\E i \in DOMAIN K : K[i] = op.arg) =>
        /\ pc = "returned"
        /\ fast_search_lower_bound_ret(op.h, tree, op.arg) = op.ret + 1

\* C7: fast_create returns NULL when the key pointer is NULL or n = 0; in every
\* other call in which no allocation fails it returns a handle whose fast_size
\* is n (sorted or not: nothing else is refused).
C7_CreateAccepts ==
    op.fn = "fast_create" =>
        /\ (op.h = NULL \/ op.arg = 0) => (pc = "returned" /\ op.ret = NULL)
        /\ (op.h # NULL /\ op.arg # 0 /\ op.fail = 0) =>
              /\ pc = "returned"
              /\ op.ret # NULL
              /\ ptr.tree = op.ret
              /\ fast_size_ret(op.ret, tree) = op.arg

\* fast_create has returned a handle for an unsorted array of three keys
C7_Witness ==
    /\ op.fn = "fast_create" /\ pc = "returned" /\ op.ret # NULL
    /\ op.arg = 3 /\ ~IsSorted(K) /\ tree.n = 3

\* C8: if any allocation attempted during fast_create fails, fast_create
\* returns NULL, no handle is held, and every block allocated during the call
\* has been released.
C8_CreateOutOfMemory ==
    (op.fn = "fast_create" /\ op.fail > 0) =>
        /\ pc = "returned"
        /\ op.ret = NULL
        /\ ptr = NoPtr
        /\ heap.live = {}
        /\ ~heap.bad

\* C9: on an index built from K of length n, fast_size returns n,
\* fast_key_at(i) returns K[i] for 0 <= i < n, and 0 for i >= n.
C9_SizeAndKeyAt ==
    /\ OnIndex("fast_size") => (pc = "returned" /\ op.ret = Length(K))
    /\ OnIndex("fast_key_at") =>
         /\ pc = "returned"
         /\ op.arg < Length(K) => op.ret = K[op.arg]
         /\ op.arg >= Length(K) => op.ret = 0

\* fast_key_at has returned the last key of an index, a nonzero one
C9_Witness ==
    /\ OnIndex("fast_key_at") /\ pc = "returned"
    /\ op.arg = Length(K) - 1 /\ op.ret # 0 /\ op.ret = K[op.arg]

\* C10: fast_destroy never fails; with NULL it releases nothing; with the
\* handle it passes the layout, the rank map, the key copy and the handle to
\* free once each, no release is a bad one, and no block of the index stays
\* live.
C10_Destroy ==
    op.fn = "fast_destroy" =>
        /\ pc = "returned"
        /\ ~heap.bad
        /\ op.h = NULL =>
             /\ freed = << >>
             /\ ptr.tree # NULL => {b.id : b \in heap.live} = {ptr.tree, ptr.layout, ptr.keys}
        /\ op.h # NULL =>
             /\ Len(freed) = 4
             /\ \A i \in 1..4 : \A j \in 1..4 :
                   (i # j /\ freed[i] # NULL) => freed[i] # freed[j]
             /\ heap.live = {}
             /\ ptr = NoPtr

\* an index has been destroyed through its handle
C10_Witness ==
    /\ op.fn = "fast_destroy" /\ op.h # NULL /\ pc = "returned"
    /\ Len(freed) = 4 /\ heap.live = {}

\* ------------------------------------------------- the layout as built
\* fast_create has just returned a handle
Created == op.fn = "fast_create" /\ pc = "returned" /\ op.ret # NULL

\* the construction that produced the live index, with its ghost records
Built == fast_build_layout(K, tree.n, tree.page_size)

\* the BFS indices of the complete subtree of d levels rooted at BFS node r
SubtreeNodes(r, d) ==
    UNION {{Shl1(l) * (r + 1) - 1 + i : i \in 0..(Shl1(l) - 1)} : l \in 0..(d - 1)}

\* the level of BFS node j in the tree (the root is at level 0)
LevelOf(j) == CHOOSE l \in 0..31 : Shl1(l) - 1 <= j /\ j < Shl1(l + 1) - 1

\* C16: after construction layout[0 .. tree_nodes-1] is a permutation of the
\* padded BFS array: every BFS node is written to exactly one position, no
\* position is written twice, out_pos ends at tree_nodes, each of the n keys
\* occurs in the layout and the other tree_nodes - n slots hold the sentinel.
C16_Permutation ==
    Created =>
        LET b == Built
            tn == tree.tree_nodes
            rank == build_inorder_map(tn).map
        IN /\ b.t = tree
           /\ b.out_pos = tn
           /\ {b.node[p] : p \in 0..(tn - 1)} = 0..(tn - 1)
           /\ \A p \in 0..(tn - 1) : tree.layout[p] = b.bfs_tree[b.node[p]]
           /\ \A i \in DOMAIN K :
                 \E p \in 0..(tn - 1) : rank[b.node[p]] = i /\ tree.layout[p] = K[i]
           /\ LET pad == {p \in 0..(tn - 1) : rank[b.node[p]] >= tree.n}
              IN /\ Cardinality(pad) = tn - tree.n
                 /\ \A p \in pad : tree.layout[p] = FAST_KEY_MAX

\* an index of several page blocks, padded with sentinels, has been built
C16_Witness ==
    /\ Created
    /\ tree.d_n > tree.d_p
    /\ tree.n < tree.tree_nodes
    /\ \E c \in 1..Len(Built.calls) : Built.calls[c].level = 0

\* C17: every call of lay_out_subtree on a subtree of remaining depth d, at
\* any blocking level, writes exactly 2^d - 1 consecutive slots holding
\* exactly the BFS nodes of that subtree; subtrees of equal depth rooted on
\* the same tree level occupy their slots in left-to-right order of their roots.
C17_SubtreeOccupancy ==
    Created =>
        LET b == Built
            C == 1..Len(b.calls)
        IN /\ \A c \in C :
                LET x == b.calls[c] IN
                /\ x.to - x.from = Shl1(x.depth) - 1
                /\ {b.node[p] : p \in x.from..(x.to - 1)} = SubtreeNodes(x.root, x.depth)
           /\ \A c \in C : \A e \in C :
                LET x == b.calls[c]
                    y == b.calls[e]
                IN (x.depth = y.depth /\ LevelOf(x.root) = LevelOf(y.root)
                      /\ x.root < y.root) => x.to <= y.from

\* a tree of several page blocks has been laid out through all three
\* blocking levels
C17_Witness ==
    /\ Created
    /\ \A l \in 0..2 : \E c \in 1..Len(Built.calls) :
          Built.calls[c].level = l /\ Built.calls[c].root > 0

\* C20: for every n >= 1 construction records d_N as the smallest d with
\* 2^d - 1 >= n and tree_nodes = 2^d_N - 1, so n <= tree_nodes and
\* 2^(d_N - 1) - 1 < n; d_N >= 1 for every index fast_create returns.
C20_TreeDepth ==
    Created =>
        /\ tree.n = Length(K) /\ tree.n >= 1
        /\ tree.d_n >= 1
        /\ Shl1(tree.d_n) - 1 >= tree.n
        /\ \A d \in 0..(tree.d_n - 1) : Shl1(d) - 1 < tree.n
        /\ Shl1(tree.d_n - 1) - 1 < tree.n
        /\ tree.tree_nodes = Shl1(tree.d_n) - 1
        /\ tree.n <= tree.tree_nodes

\* an index whose key count fills its tree exactly has been built
C20_Witness ==
    Created /\ tree.n = 7 /\ tree.d_n = 3 /\ tree.tree_nodes = 7

\* the BFS indices of a tree of d = 3 or 4 levels in SIMD-blocked order: the
\* top SIMD block, then the subtree of each depth-2 descendant as its own block
SimdBlocked(d) ==
    <<0, 1, 2>>
    \o (IF d = 3 THEN <<3, 4, 5, 6>>
        ELSE <<3, 7, 8, 4, 9, 10, 5, 11, 12, 6, 13, 14>>)

\* C15: after construction, for every i < n there is a layout position p
\* holding K[i] whose rank-map entry is i, and the rank-map entry of every
\* sentinel-padded position is n.
C15_RankMap ==
    Created =>
        LET tn == tree.tree_nodes
            rank == build_inorder_map(tn).map
        IN /\ ptr.sorted_rank # NULL
           /\ \A i \in DOMAIN K :
                 \E p \in 0..(tn - 1) :
                    tree.layout[p] = K[i] /\ tree.sorted_rank[p] = i
           /\ \A p \in 0..(tn - 1) :
                 rank[Built.node[p]] >= tree.n => tree.sorted_rank[p] = tree.n

\* C18: when d_K < d_N <= d_L (d_N = 3 or 4) the layout is BFS nodes 0,1,2,
\* then for each depth-2 descendant 3,4,5,6 in order its subtree as its own
\* SIMD block; for d_N = 4: [0,1,2, 3,7,8, 4,9,10, 5,11,12, 6,13,14].
C18_CacheLineLayout ==
    (Created /\ tree.d_n > FAST_DK /\ tree.d_n <= FAST_DL) =>
        \A p \in 0..(tree.tree_nodes - 1) :
            /\ Built.node[p] = SimdBlocked(tree.d_n)[p + 1]
            /\ tree.layout[p] = Built.bfs_tree[SimdBlocked(tree.d_n)[p + 1]]

\* C19: when d_N > d_L, for every d_P, the first 15 slots are the top 4-level
\* block in SIMD-blocked order [0,1,2, 3,7,8, 4,9,10, 5,11,12, 6,13,14], and
\* the top min(d_N, d_P) levels are followed by the subtrees rooted d_P levels
\* below the root, left to right, each laid out at the page level.
C19_PageLayout ==
    (Created /\ tree.d_n > FAST_DL) =>
        LET b == Built
            top == Shl1(Min(tree.d_n, tree.d_p)) - 1
            size == Shl1(tree.d_n - tree.d_p) - 1
        IN /\ \A p \in 0..14 : b.node[p] = SimdBlocked(4)[p + 1]
           /\ {b.node[p] : p \in 0..(top - 1)} = 0..(top - 1)
           /\ tree.d_n > tree.d_p =>
                \A i \in 0..(Shl1(tree.d_p) - 1) :
                   \E c \in 1..Len(b.calls) :
                      b.calls[c] = [root |-> top + i, depth |-> tree.d_n - tree.d_p,
                                    level |-> 2, from |-> top + i * size,
                                    to |-> top + (i + 1) * size]

\* ------------------------------------------------- the walk of a query
\* the last call was a search that ran a tree walk on the live index
Walked ==
    /\ op.fn \in {"fast_search", "fast_search_sse", "fast_search_scalar"}
    /\ op.h # NULL
    /\ tree.d_n > 0

\* that walk: the SIMD one in a FAST_HAVE_SSE build unless the scalar walk
\* was called by name
WalkOf ==
    IF have_sse /\ op.fn # "fast_search_scalar"
    THEN SseWalk(tree, op.arg) ELSE ScalarWalk(tree, op.arg)

\* the BFS index of the root of the subtree that the child choices of visits
\* 1..k-1 select (-1: some choice was not a child)
RECURSIVE PathRoot(_, _)
PathRoot(visits, k) ==
    IF k = 1 THEN 0
    ELSE LET r == PathRoot(visits, k - 1)
             v == visits[k - 1]
         IN IF r < 0 \/ v.child < 0 THEN -1
            ELSE IF v.width = 3 THEN 4 * r + 3 + v.child
            ELSE 2 * r + 1 + v.child

\* C12: for every index and query the offsets of the walk visit the slots
\* that hold the BFS nodes on the query's root-to-leaf path: at a three-key
\* step slots offset, offset+1, offset+2 hold [root, left child, right child]
\* of the subtree selected by the preceding child choices, at a single-key
\* step slot offset holds that subtree's root.
C12_WalkFollowsPath ==
    Walked =>
        LET w == WalkOf
            b == Built
        IN \A k \in 1..Len(w.visits) :
              LET v == w.visits[k]
                  r == PathRoot(w.visits, k)
              IN /\ r >= 0
                 /\ v.offset >= 0 /\ v.offset + v.width <= tree.tree_nodes
                 /\ b.node[v.offset] = r
                 /\ v.width = 3 => /\ b.node[v.offset + 1] = 2 * r + 1
                                   /\ b.node[v.offset + 2] = 2 * r + 2

\* C13: on an index built from non-decreasing keys every offset at which a
\* walk reads the layout satisfies 0 <= offset < tree_nodes (as a size_t, so a
\* wrapped negative offset is not below tree_nodes), and every 4-slot load
\* stays inside the padded layout block.
C13_OffsetsInBounds ==
    (Walked /\ IsSorted(K)) =>
        LET w == WalkOf
        IN /\ ~w.oob
           /\ \A k \in 1..Len(w.visits) :
                 /\ w.visits[k].offset >= 0
                 /\ w.visits[k].offset < tree.tree_nodes
                 /\ InBlock(tree, w.visits[k].offset, 4)

\* C14: during the SIMD walk of an index built from non-decreasing keys the
\* 3-bit mask looked up in FAST_LOOKUP is one of 000, 010, 011, 111, so
\* child_index is in {0,1,2,3} and no -1 entry enters the offset arithmetic.
C14_MasksWellFormed ==
    (Walked /\ IsSorted(K) /\ have_sse /\ op.fn # "fast_search_scalar") =>
        LET w == SseWalk(tree, op.arg)
        IN \A k \in 1..Len(w.visits) :
              w.visits[k].width = 3 =>
                 /\ w.visits[k].mask >= 0
                 /\ (w.visits[k].mask % 8) \in {0, 2, 3, 7}
                 /\ w.visits[k].child \in 0..3

PageBlockDepth(p) ==
    CHOOSE d \in 0..20 : (Shl1(d) - 1) * 4 <= p /\ (Shl1(d + 1) - 1) * 4 > p

RECURSIVE InorderOf(_, _)
InorderOf(i, tn) ==
    IF i >= tn THEN << >>
    ELSE InorderOf(2 * i + 1, tn) \o <<i>> \o InorderOf(2 * i + 2, tn)

\* the nodes of the subtree rooted at BFS node r in a tree of tn nodes
Below(r, tn) == {InorderOf(r, tn)[k] : k \in 1..Len(InorderOf(r, tn))}

\* C22: after BFS materialization BFS slot i holds K[r(i)] when its in-order
\* rank r(i) < n and the sentinel otherwise: the in-order traversal of the
\* BFS array is K[0..n-1] in order followed by tree_nodes - n sentinels, and
\* for non-decreasing K every key in a node's left subtree is <= the node's
\* key <= every key in its right subtree.
C22_BfsMaterialized ==
    Created =>
        LET bfs == Built.bfs_tree
            tn == tree.tree_nodes
            io == InorderOf(0, tn)
        IN /\ DOMAIN bfs = 0..(tn - 1)
           /\ Len(io) = tn
           /\ \A k \in 1..tn :
                 bfs[io[k]] = IF k - 1 < tree.n THEN K[k - 1] ELSE FAST_KEY_MAX
           /\ IsSorted(K) =>
                 \A i \in 0..(tn - 1) :
                    /\ \A j \in Below(2 * i + 1, tn) : bfs[j] <= bfs[i]
                    /\ \A j \in Below(2 * i + 2, tn) : bfs[i] <= bfs[j]

\* a tree of four levels padded with sentinels has been materialized from
\* sorted keys
C22_Witness ==
    /\ Created /\ IsSorted(K)
    /\ tree.n = 10 /\ tree.tree_nodes = 15
    /\ Built.bfs_tree[0] = K[7] /\ Built.bfs_tree[14] = FAST_KEY_MAX

\* C23: build_inorder_map on the complete tree of tree_nodes = 2^d_N - 1
\* positions terminates having given every BFS position a distinct in-order
\* rank in 0..tree_nodes-1 (a bijection), and its explicit stack never holds
\* more than d_N entries.
C23_InorderMap ==
    Created =>
        LET tn == tree.tree_nodes
            s == build_inorder_map(tn)
            io == InorderOf(0, tn)
        IN /\ InorderDone(s, tn)
           /\ s.sorted_idx = tn
           /\ DOMAIN s.map = 0..(tn - 1)
           /\ {s.map[i] : i \in 0..(tn - 1)} = 0..(tn - 1)
           /\ \A i \in 0..(tn - 1) : \A j \in 0..(tn - 1) :
                 s.map[i] = s.map[j] => i = j
           /\ \A k \in 1..tn : s.map[io[k]] = k - 1
           /\ s.max_top <= tree.d_n
           /\ Built.max_top = s.max_top

\* the map of a tree of at least five levels has been built, with the stack
\* as deep as the tree
C23_Witness ==
    /\ Created /\ tree.d_n >= 5
    /\ build_inorder_map(tree.tree_nodes).max_top = tree.d_n

\* ------------------------------------------------- the end of a search
\* C24: after the walk, fast_search starts from the rank-map entry of the last
\* block examined and reads at most 3 (three-key leaf) or 2 (single-key leaf)
\* further entries of the sorted key array, each the entry after the current
\* position; it makes no other search over the sorted keys.
C24_FinalScan ==
    (Walked /\ pc = "returned" /\ IsSorted(K)
       /\ K[0] <= op.arg /\ op.arg < K[Length(K) - 1]) =>
        LET w == WalkOf
            reads == PredReads(tree.keys, op.arg, 0, tree.n - 1)
            most == IF w.visits[Len(w.visits)].width = 3 THEN 3 ELSE 2
        IN /\ ptr.sorted_rank # NULL
           /\ Len(reads) <= most
           /\ \A k \in 1..(Len(reads) - 1) : reads[k + 1] = reads[k] + 1
           /\ Len(FinalReads(tree, op.arg)) <= 2 + most

\* C25: in fast_search the boundary short-circuits are the first step: for
\* q < keys[0] it returns -1 and for q >= keys[n-1] it returns n-1, before any
\* layout slot is read and before any traversal step is taken.
C25_BoundaryFirst ==
    (OnIndex("fast_search") /\ tree.n > 0
       /\ (op.arg < tree.keys[0] \/ op.arg >= tree.keys[tree.n - 1])) =>
        /\ pc = "returned"
        /\ op.ret = IF op.arg < tree.keys[0] THEN -1 ELSE tree.n - 1
        /\ VisitsBeforeKeys(have_sse, tree, op.arg) = << >>

\* ------------------------------------------------- the heap after a build
\* the allocation kinds that are scratch of the construction
Scratch == {"bfs_tree", "bfs_to_sorted", "stack", "queue", "children"}

\* C26: when fast_create succeeds, the allocations of the call still live on
\* return are the handle, the key copy, the layout and the rank map, and
\* every scratch allocation (BFS array, in-order map, traversal stack, every
\* block queue and every child list) has been freed exactly once.
C26_ScratchReleased ==
    Created =>
        LET ev == Built.ev IN
        /\ {b.kind : b \in heap.live} = {"tree", "keys", "layout", "sorted_rank"}
        /\ Cardinality(heap.live) = 4
        /\ ptr.sorted_rank # NULL
        /\ ~heap.bad
        /\ \A i \in 1..Len(ev) :
              (ev[i].op = "alloc" /\ ev[i].kind \in Scratch) =>
                 Cardinality({j \in 1..Len(ev) :
                                ev[j].op = "free" /\ ev[j].id = ev[i].id}) = 1
        /\ \A j \in 1..Len(ev) :
              ev[j].op = "free" =>
                 \E i \in 1..(j - 1) : /\ ev[i].op = "alloc" /\ ev[i].id = ev[j].id
                                       /\ ev[i].kind \in Scratch

\* ------------------------------------------------- the SIMD comparison
\* C27: in every 128-bit comparison of the SIMD walk the fourth lane (layout
\* slot offset+3) holds the sentinel INT32_MAX, so bit 3 of the extracted
\* mask is 0.
C27_FourthLaneSentinel ==
    (Walked /\ have_sse /\ op.fn # "fast_search_scalar") =>
        LET w == SseWalk(tree, op.arg)
        IN \A k \in 1..Len(w.visits) :
              (w.visits[k].width = 3 /\ w.visits[k].mask >= 0) =>
                 /\ tree.layout[w.visits[k].offset + 3] = FAST_KEY_MAX
                 /\ w.visits[k].mask < 8

\* ------------------------------------------------- the layout's padding
\* C28: after construction the layout allocation holds at least
\* tree_nodes + 4 32-bit slots (16 bytes beyond the last tree slot), and every
\* slot at index >= tree_nodes up to the end of the allocation holds the
\* sentinel INT32_MAX.
C28_TrailingPadding ==
    Created =>
        LET slots == Length(tree.layout)
            tn == tree.tree_nodes
        IN /\ DOMAIN tree.layout = 0..(slots - 1)
           /\ slots = LayoutSlots(tn)
           /\ slots >= tn + 4
           /\ slots * 4 >= tn * 4 + 16
           /\ \A p \in tn..(slots - 1) : tree.layout[p] = FAST_KEY_MAX
           /\ Built.out_pos <= tn

\* a full tree of 15 keys has been built: the allocation is 80 bytes, five
\* slots more than the tree
C28_Witness ==
    /\ Created /\ tree.n = 15 /\ tree.tree_nodes = 15
    /\ Length(tree.layout) = 20
    /\ tree.layout[14] # FAST_KEY_MAX /\ tree.layout[15] = FAST_KEY_MAX

\* ------------------------------------------------- mask lookup and chain
\* C29: for a three-key block [root, left, right] with left <= root <= right
\* and a query q, the mask lookup (FAST_LOOKUP on the bits q>root, q>left,
\* q>right) and the scalar comparison chain select the same child_index:
\* 0 if q <= left, 1 if left < q <= root, 2 if root < q <= right, 3 if
\* q > right; the table maps 000 to 0, 010 to 1, 011 to 2, 111 to 3 and is -1
\* for the other four patterns.
C29_LookupEqualsChain ==
    (Walked /\ IsSorted(K) /\ tree.d_n >= FAST_DK) =>
        LET root == tree.layout[0]
            left == tree.layout[1]
            right == tree.layout[2]
            q == op.arg
            sse == SseWalk(tree, q).visits[1]
            scalar == ScalarWalk(tree, q).visits[1]
            child == IF q <= left THEN 0 ELSE IF q <= root THEN 1
                     ELSE IF q <= right THEN 2 ELSE 3
        IN /\ left <= root /\ root <= right
           /\ sse.offset = 0 /\ sse.width = 3
           /\ scalar.offset = 0 /\ scalar.width = 3
           /\ sse.mask % 8 = Bit(q > root) + 2 * Bit(q > left) + 4 * Bit(q > right)
           /\ sse.child = FAST_LOOKUP[sse.mask % 8]
           /\ sse.child = child
           /\ scalar.child = child
           /\ FAST_LOOKUP[0] = 0 /\ FAST_LOOKUP[2] = 1
           /\ FAST_LOOKUP[3] = 2 /\ FAST_LOOKUP[7] = 3
           /\ \A m \in {1, 4, 5, 6} : FAST_LOOKUP[m] = -1
           /\ \A m \in 0..7 : FAST_LOOKUP[m + 8] = FAST_LOOKUP[m]

\* a query strictly between the left key and the root of the top block has
\* been answered: mask 010, child 1, with the fourth lane not a sentinel
C29_Witness ==
    /\ Walked /\ IsSorted(K) /\ tree.d_n >= 3
    /\ tree.layout[1] < op.arg /\ op.arg < tree.layout[0]
    /\ op.arg > tree.layout[3]
    /\ SseWalk(tree, op.arg).visits[1].mask = 10
    /\ ScalarWalk(tree, op.arg).visits[1].child = 1

\* ------------------------------------------------- termination of the walk
\* C30: for every index and every query the traversal loop of
\* fast_search_sse and of fast_search_scalar ends after exactly
\* ceil(d_N / 2) block visits, floor(d_N / 2) three-key steps followed by one
\* single-key step when d_N is odd, with depth_remaining run down from d_N
\* to 0, and the call then returns a result.
C30_WalkTerminates ==
    Walked =>
        LET w == WalkOf
            full == tree.d_n \div 2
            odd == tree.d_n % 2
        IN /\ pc = "returned"
           /\ ~w.oob
           /\ w.done /\ w.depth_remaining = 0
           /\ Len(w.visits) = full + odd
           /\ \A k \in 1..Len(w.visits) :
                 w.visits[k].width = IF k <= full THEN 3 ELSE 1

====
